---- MODULE Spec2Model ----
(***************************************************************************)
(* Model of weibo-image-hound: the `hunt` command driving hound.Hunt, i.e.  *)
(* one race of direct-IP requests per quality variant of the image URL,    *)
(* consumed through a buffered channel; the request headers of the         *)
(* direct-IP client; the `cache` command with its resolver goroutines; and  *)
(* the globalping provider client: request with its ETag cache, and the    *)
(* polling loop of getMeasurement.                                         *)
(***************************************************************************)
EXTENDS Integers, Sequences, FiniteSets, TLC

VARIABLES
    Resolves,   \* config.Cache.Resolves: the cached candidate IP list
    URLs,       \* hunt: URLs, the quality variants to try (<<>> before line 55)
    pc,         \* hunt: position of the command's goroutine
    v,          \* hunt: index in URLs of the variant of the current iteration
    cnt,        \* hunt: completed iterations of `for range IPs` in this race
    result,     \* hunt: `var result hound.Result`
    reported,   \* hunt: what the command printed as its final outcome
    saved,      \* hunt: the body written to the output file, or NoFile
    cancelled,  \* per race: ctx.Done() is closed
    huntIdx,    \* per race: hound.Hunt loop position (0 = goroutine not started)
    att,        \* per race, per IP index: state of the attempt goroutine
    ch,         \* per race: contents of the buffered channel `ch`
    delivered,  \* results received from ch in the current race, in arrival order
    got,        \* per race: number of results the consumer has received
    won,        \* per race: the consumer has received a Success
    okBy,       \* per race: the IP indexes whose request returned HTTP 200
    baseHeaders, \* hound: the package variable baseHeaders
    headers,    \* hound: the header override handed to Hunt / client.request
    reqHeader,  \* hound: req.Header of the latest request built, or NoReq
    force,      \* cache: the force flag was given (Flag("force").Changed)
    cpc,        \* cache: position of the command's goroutine
    spawned,    \* cache: hostnames whose resolver goroutine was started
    rs,         \* cache: per hostname, state of the resolver goroutine
    wg,         \* cache: counter of the sync.WaitGroup
    cch,        \* cache: contents of the buffered channel `ch`
    acc,        \* cache: the local slice `resolves`
    ci,         \* cache: completed iterations of `for range hostnames`
    oldCache,   \* cache: config.Cache.Resolves when the command started
    resolvedNow, \* cache: addresses the provider resolved in this run
    sends,      \* cache: per hostname, number of messages sent on ch
    failed,     \* cache: hostnames whose provider.Resolve returned an error
    gpc,        \* globalping: position of the getMeasurement call
    gid,        \* globalping: the ID argument of getMeasurement
    eTags,      \* globalping: client.eTags, from URL to stored ETag
    mu,         \* globalping: client.mu is locked and will never be unlocked
    timerFired, \* globalping: overallTimeout.C holds the timer's value
    polls,      \* globalping: ticks of the ticker that getMeasurement took
    gret,       \* globalping: what getMeasurement returned, "none" before
    pollReq,    \* globalping: the latest client.request call of getMeasurement
    otherReq    \* globalping: the latest client.request call of another caller

\* variables of the header construction
hdrs == <<baseHeaders, headers, reqHeader>>

\* variables of the cache command
cacheVars == <<force, cpc, spawned, rs, wg, cch, acc, ci, oldCache,
               resolvedNow, sends,
              failed>>

\* variables of the globalping provider client
probeVars == <<gpc, gid, eTags, mu, timerFired, polls, gret, pollReq,
               otherReq>>

\* everything the hunt command never touches
outside == <<cacheVars, probeVars>>

vars == <<Resolves, URLs, pc, v, cnt, result, reported, saved,
          cancelled, huntIdx, att, ch, delivered, got, won, okBy, hdrs,
          cacheVars, probeVars>>

----------------------------------------------------------------------------
(* Bounds of the model *)

\* longest cached resolve list considered
MaxIPs == 3

\* number of entries of weibo.qualities considered (the source lists 17)
MaxVariants == 3

----------------------------------------------------------------------------
(* Data *)

StatusOK == 200

\* stands for every response status other than 200 (403, 301, 404, ...)
StatusOther == 403

NoFile == "nofile"

\* the i-th cached address; addresses are kept distinct by uniqueIPs
Addr(i) == 10 + i

Races == 1..MaxVariants

\* zero value of hound.Result
ZeroResult == [IP |-> 0, Err |-> FALSE, Status |-> 0, URL |-> 0, Body |-> <<>>]

\* the body the address ip serves for the variant url: the image with a 200,
\* some other page with another status, nothing when the request fails
ServedBody(url, ip, o) ==
    IF o = "ok" THEN <<"img", url, ip>>
    ELSE IF o = "other" THEN <<"page", url, ip>>
    ELSE <<>>

\* result.Body as handed to os.WriteFile
BodyOf(res) == res.Body

\* IPs := config.Cache.Resolves
IPsTwice == Resolves \o Resolves
IPs == Resolves

\* ch := make(chan hound.Result, len(IPs))
ChanCapShort == Len(IPs) - 1
ChanCap == Len(IPs)

\* for range IPs: number of receives of one race
RaceLenShort == Len(IPs) - 1
RaceLen == Len(IPs)

\* weibo.qualities, and GenerateURLsOfAllQualities: one URL per quality;
\* variant 0 is the URL as given on the command line
qualities == [k \in 1..MaxVariants |-> k]

GenerateURLsOfAllQualities(matches) ==
    IF matches THEN [ok |-> TRUE, URLs |-> qualities]
               ELSE [ok |-> FALSE, URLs |-> <<>>]

\* Result{IP: IP, Err: err} / Result{IP: IP, Status: status, ...}
\* (the URL field records the variant the attempt was made for)
MkResultCaptured(r, i, o) ==
    IF o = "err"
    THEN [IP |-> IPs[Len(IPs)], Err |-> TRUE, Status |-> 0, URL |-> URLs[r],
          Body |-> <<>>]
    ELSE [IP |-> IPs[Len(IPs)], Err |-> FALSE,
          Status |-> IF o = "ok" THEN StatusOK ELSE StatusOther,
          URL |-> URLs[r], Body |-> ServedBody(URLs[r], IPs[i], o)]

MkResult(r, i, o) ==
    IF o = "err"
    THEN [IP |-> IPs[i], Err |-> TRUE, Status |-> 0, URL |-> URLs[r],
          Body |-> <<>>]
    ELSE [IP |-> IPs[i], Err |-> FALSE,
          Status |-> IF o = "ok" THEN StatusOK ELSE StatusOther,
          URL |-> URLs[r], Body |-> ServedBody(URLs[r], IPs[i], o)]

Outcomes == {"ok", "other", "err"}

\* the consumer's test: result.Err == nil && result.Status == http.StatusOK
IsSuccessErrOnly(res) == ~res.Err
IsSuccess(res) == ~res.Err /\ res.Status = StatusOK


----------------------------------------------------------------------------
(* Request headers of the direct-IP client *)

\* a header map is a function from header keys to lists of values
NoHeaders == <<>>

NoReq == [noreq |-> <<>>]

\* var baseHeaders = http.Header{...}
BaseHeaders ==
    [k \in {"Accept", "Accept-Encoding", "Accept-Language", "Referer",
            "Sec-Ch-Ua", "Sec-Ch-Ua-Mobile", "Sec-Ch-Ua-Platform",
            "Sec-Fetch-Dest", "Sec-Fetch-Mode", "Sec-Fetch-Site",
            "User-Agent"} |->
        CASE k = "Accept" ->
               <<"image/avif,image/webp,image/apng,image/svg+xml,image/*,*/*;q=0.8">>
          [] k = "Accept-Encoding" -> <<"gzip, deflate, br">>
          [] k = "Accept-Language" -> <<"zh-CN,zh;q=0.9">>
          [] k = "Referer" -> <<"https://weibo.com/">>
          [] k = "Sec-Ch-Ua" ->
               <<"Google Chrome\";v=\"119\", \"Chromium\";v=\"119\", \"Not?A_Brand\";v=\"24">>
          [] k = "Sec-Ch-Ua-Mobile" -> <<"?0">>
          [] k = "Sec-Ch-Ua-Platform" -> <<"Windows">>
          [] k = "Sec-Fetch-Dest" -> <<"image">>
          [] k = "Sec-Fetch-Mode" -> <<"no-cors">>
          [] k = "Sec-Fetch-Site" -> <<"cross-site">>
          [] OTHER ->
               <<"Mozilla/5.0 (Windows NT 10.0; Win64; x64) AppleWebKit/537.36 (KHTML, like Gecko) Chrome/119.0.0.0 Safari/537.36">>]

\* m with key k set to val / with key k deleted
SetKey(m, k, val) ==
    [x \in DOMAIN m \cup {k} |-> IF x = k THEN val ELSE m[x]]

DelKey(m, k) == [x \in DOMAIN m \ {k} |-> m[x]]

\* url.go lines 130-137: one iteration of `for k, v := range reqHeaders`
OverrideKeyNoEmptyCheck(req, k, val) ==
    IF Len(val) > 0 THEN SetKey(req, k, val) ELSE DelKey(req, k)

OverrideKey(req, k, val) ==
    IF Len(val) > 0 /\ val[1] # "" THEN SetKey(req, k, val)
    ELSE DelKey(req, k)

\* url.go lines 129-137: req.Header = baseHeaders.Clone(), then the overrides
\* (the iterations touch different keys, so the map order is immaterial)
RECURSIVE ApplyOverrides(_, _, _)
ApplyOverrides(req, over, keys) ==
    IF keys = {} THEN req
    ELSE LET k == CHOOSE x \in keys : TRUE
         IN  ApplyOverrides(OverrideKey(req, k, over[k]), over, keys \ {k})

\* client.request: the outgoing header set, and what the call leaves in the
\* baseline map and in the caller's override map
RequestHeadersNoClone(base, over) ==
    [req  |-> ApplyOverrides(base, over, DOMAIN over),
     base |-> ApplyOverrides(base, over, DOMAIN over),
     over |-> over]

RequestHeaders(base, over) ==
    [req  |-> ApplyOverrides(base, over, DOMAIN over),
     base |-> base,
     over |-> over]

----------------------------------------------------------------------------
(* Initial state: the command has parsed its arguments *)

\* http.MethodGet, http.MethodPost
GET == "GET"

POST == "POST"

\* a nil []byte, which no body read from a response is
NilBody == [nil |-> TRUE]

\* a Go map is nil or made; reading and delete work on both, assigning to a
\* nil map panics
NilMap == [made |-> FALSE, m |-> <<>>]

MapHas(tags, k) == k \in DOMAIN tags.m

MapGet(tags, k) == IF k \in DOMAIN tags.m THEN tags.m[k] ELSE ""

MapDelete(tags, k) == [tags EXCEPT !.m = [x \in DOMAIN @ \ {k} |-> @[x]]]

MapAssign(tags, k, val) ==
    [tags EXCEPT !.m = [x \in DOMAIN @ \cup {k} |->
                           IF x = k THEN val ELSE @[x]]]

\* NewClient: &client{Client: &http.Client{}}, which leaves eTags nil
NewClientETags == NilMap

\* client.request was not called yet
NoCall == [phase |-> "none", method |-> "none", URL |-> <<>>,
           before |-> "", hdr |-> <<>>, status |-> 0, etag |-> "",
           body |-> NilBody, err |-> FALSE]

\* no call of the provider client is in progress
ProbeIdle ==
    /\ gpc = "idle"
    /\ gid = ""
    /\ eTags = NewClientETags
    /\ mu = FALSE
    /\ timerFired = FALSE
    /\ polls = 0
    /\ gret = "none"
    /\ pollReq = NoCall
    /\ otherReq = NoCall

\* the cache command is not running
CacheIdle ==
    /\ force = FALSE
    /\ cpc = "idle"
    /\ spawned = 0
    /\ rs = <<>>
    /\ wg = 0
    /\ cch = <<>>
    /\ acc = <<>>
    /\ ci = 0
    /\ oldCache = <<>>
    /\ resolvedNow = {}
    /\ sends = <<>>
    /\ failed = {}

Init ==
    /\ Resolves \in {[i \in 1..n |-> Addr(i)] : n \in 0..MaxIPs}
    /\ URLs = <<>>
    /\ pc = "start"
    /\ v = 0
    /\ cnt = 0
    /\ result = ZeroResult
    /\ reported = "none"
    /\ saved = NoFile
    /\ cancelled = [r \in Races |-> FALSE]
    /\ huntIdx = [r \in Races |-> 0]
    /\ att = [r \in Races |-> [i \in 1..Len(IPs) |-> "idle"]]
    /\ ch = [r \in Races |-> <<>>]
    /\ delivered = <<>>
    /\ got = [r \in Races |-> 0]
    /\ won = [r \in Races |-> FALSE]
    /\ okBy = [r \in Races |-> {}]
    /\ baseHeaders = BaseHeaders
    /\ headers = NoHeaders
    /\ reqHeader = NoReq
    /\ CacheIdle
    /\ ProbeIdle

----------------------------------------------------------------------------
(* The hunt command *)

\* lines 48-58: empty cache => return; otherwise build the variant list
HuntStartNoEmptyCheck ==
    /\ pc = "start"
    /\ \E matches \in BOOLEAN :
          LET g == GenerateURLsOfAllQualities(matches)
          IN  URLs' = IF g.ok THEN g.URLs ELSE <<0>>
    /\ pc' = "urls"
    /\ UNCHANGED <<reported, v>>
    /\ UNCHANGED <<outside, hdrs, okBy, Resolves, cnt, result, saved,
                   cancelled, huntIdx, att, ch, delivered, got, won>>

HuntStart ==
    /\ pc = "start"
    /\ IF Len(IPs) = 0
       THEN /\ pc' = "noresolves"
            /\ reported' = "NoResolves"
            /\ UNCHANGED <<URLs, v>>
       ELSE /\ \E matches \in BOOLEAN :
                 LET g == GenerateURLsOfAllQualities(matches)
                 IN  URLs' = IF g.ok THEN g.URLs ELSE <<0>>
            /\ pc' = "urls"
            /\ UNCHANGED <<reported, v>>
    /\ UNCHANGED <<outside, hdrs, okBy, Resolves, cnt, result, saved,
                   cancelled, huntIdx, att, ch, delivered, got, won>>

\* lines 62-66: next variant: fresh ctx and channel, go hound.Hunt(...)
StartRace ==
    /\ pc = "urls"
    /\ v < Len(URLs)
    /\ v' = v + 1
    /\ huntIdx' = [huntIdx EXCEPT ![v + 1] = 1]
    /\ cnt' = 0
    /\ delivered' = <<>>
    /\ pc' = IF RaceLen > 0 THEN "recv" ELSE "exhausted"
    /\ UNCHANGED <<outside, hdrs, okBy, Resolves, URLs, result, reported,
                   saved, cancelled, att, ch, got, won>>

\* line 62: the range over URLs is over
EndOfURLs ==
    /\ pc = "urls"
    /\ v >= Len(URLs)
    /\ pc' = "report"
    /\ UNCHANGED <<outside, hdrs, okBy, Resolves, URLs, v, cnt, result,
                   reported, saved, cancelled, huntIdx, att, ch, delivered,
                   got, won>>

\* lines 67-77: result = <-ch, then classify it
RecvInputOrder ==
    /\ pc = "recv"
    /\ ch[v] # <<>>
    /\ LET k == CHOOSE x \in 1..Len(ch[v]) :
                    \A y \in 1..Len(ch[v]) : ch[v][x].IP <= ch[v][y].IP
           res == ch[v][k]
       IN  /\ result' = res
           /\ ch' = [ch EXCEPT ![v] = SubSeq(@, 1, k - 1)
                                        \o SubSeq(@, k + 1, Len(@))]
           /\ delivered' = Append(delivered, res)
           /\ got' = [got EXCEPT ![v] = @ + 1]
           /\ won' = [won EXCEPT ![v] = @ \/ IsSuccess(res)]
           /\ cnt' = cnt + 1
           /\ pc' = IF IsSuccess(res) THEN "succeeded"
                    ELSE IF cnt + 1 >= RaceLen THEN "exhausted"
                    ELSE "recv"
    /\ UNCHANGED <<outside, hdrs, okBy, Resolves, URLs, v, reported, saved,
                   cancelled, huntIdx, att>>

RecvBreakOnFailure ==
    /\ pc = "recv"
    /\ ch[v] # <<>>
    /\ LET res == Head(ch[v])
       IN  /\ result' = res
           /\ ch' = [ch EXCEPT ![v] = Tail(@)]
           /\ delivered' = Append(delivered, res)
           /\ got' = [got EXCEPT ![v] = @ + 1]
           /\ won' = [won EXCEPT ![v] = @ \/ IsSuccess(res)]
           /\ cnt' = cnt + 1
           /\ pc' = IF IsSuccess(res) THEN "succeeded"
                    ELSE IF cnt + 1 >= RaceLen \/ res.Err THEN "exhausted"
                    ELSE "recv"
    /\ UNCHANGED <<outside, hdrs, okBy, Resolves, URLs, v, reported, saved,
                   cancelled, huntIdx, att>>

Recv ==
    /\ pc = "recv"
    /\ ch[v] # <<>>
    /\ LET res == Head(ch[v])
       IN  /\ result' = res
           /\ ch' = [ch EXCEPT ![v] = Tail(@)]
           /\ delivered' = Append(delivered, res)
           /\ got' = [got EXCEPT ![v] = @ + 1]
           /\ won' = [won EXCEPT ![v] = @ \/ IsSuccess(res)]
           /\ cnt' = cnt + 1
           /\ pc' = IF IsSuccess(res) THEN "succeeded"
                    ELSE IF cnt + 1 >= RaceLen THEN "exhausted"
                    ELSE "recv"
    /\ UNCHANGED <<outside, hdrs, okBy, Resolves, URLs, v, reported, saved,
                   cancelled, huntIdx, att>>

\* lines 79-80: cancel(); break urls
CancelSuccessContinue ==
    /\ pc = "succeeded"
    /\ cancelled' = [cancelled EXCEPT ![v] = TRUE]
    /\ pc' = IF cnt >= RaceLen THEN "exhausted" ELSE "recv"
    /\ UNCHANGED <<outside, hdrs, okBy, Resolves, URLs, v, cnt, result,
                   reported, saved, huntIdx, att, ch, delivered, got, won>>

CancelSuccessBreakInner ==
    /\ pc = "succeeded"
    /\ cancelled' = [cancelled EXCEPT ![v] = TRUE]
    /\ pc' = "exhausted"
    /\ UNCHANGED <<outside, hdrs, okBy, Resolves, URLs, v, cnt, result,
                   reported, saved, huntIdx, att, ch, delivered, got, won>>

CancelSuccess ==
    /\ pc = "succeeded"
    /\ cancelled' = [cancelled EXCEPT ![v] = TRUE]
    /\ pc' = "report"
    /\ UNCHANGED <<outside, hdrs, okBy, Resolves, URLs, v, cnt, result,
                   reported, saved, huntIdx, att, ch, delivered, got, won>>

\* lines 82-84: cancel(); "All failed for URL"; on to the next variant
CancelExhausted ==
    /\ pc = "exhausted"
    /\ cancelled' = [cancelled EXCEPT ![v] = TRUE]
    /\ pc' = "urls"
    /\ UNCHANGED <<outside, hdrs, okBy, Resolves, URLs, v, cnt, result,
                   reported, saved, huntIdx, att, ch, delivered, got, won>>

\* lines 86-118: after the loop the command prints [SUCCESS] and writes
\* result.Body to the output file, whichever way the loop was left; when
\* os.WriteFile fails it panics, with [SUCCESS] printed and no file
Report(written) ==
    /\ pc = "report"
    /\ reported' = "SUCCESS"
    /\ IF written
       THEN saved' = BodyOf(result) /\ pc' = "done"
       ELSE saved' = saved /\ pc' = "panic"
    /\ UNCHANGED <<outside, hdrs, okBy, Resolves, URLs, v, cnt, result,
                   cancelled, huntIdx, att, ch, delivered, got, won>>

----------------------------------------------------------------------------
(* hound.Hunt and its attempt goroutines *)

\* url.go lines 48-68: one iteration of `for _, IP := range IPs`: go func(IP)
HuntLaunchInPlace(r) ==
    /\ huntIdx[r] >= 1
    /\ huntIdx[r] <= Len(IPs)
    /\ att' = [att EXCEPT ![r][huntIdx[r]] = "ready"]
    /\ huntIdx' = [huntIdx EXCEPT ![r] = @ + 1]
    /\ Resolves' = [Resolves EXCEPT ![huntIdx[r]] = 0]
    /\ UNCHANGED <<outside, hdrs, okBy, URLs, pc, v, cnt, result, reported,
                   saved, cancelled, ch, delivered, got, won>>

HuntLaunch(r) ==
    /\ huntIdx[r] >= 1
    /\ huntIdx[r] <= Len(IPs)
    /\ att' = [att EXCEPT ![r][huntIdx[r]] = "ready"]
    /\ huntIdx' = [huntIdx EXCEPT ![r] = @ + 1]
    /\ UNCHANGED <<outside, hdrs, okBy, Resolves, URLs, pc, v, cnt, result,
                   reported, saved, cancelled, ch, delivered, got, won>>

\* url.go lines 55-58: select { case <-ctx.Done(): return; default: request }
AttemptCheckNoSelect(r, i) ==
    /\ att[r][i] = "ready"
    /\ att' = [att EXCEPT ![r][i] = "request"]
    /\ LET q == RequestHeaders(baseHeaders, headers)
       IN  /\ reqHeader' = q.req
           /\ baseHeaders' = q.base
           /\ headers' = q.over
    /\ UNCHANGED <<outside, okBy, Resolves, URLs, pc, v, cnt, result,
                   reported, saved, cancelled, huntIdx, ch, delivered, got,
                   won>>

AttemptCheck(r, i) ==
    /\ att[r][i] = "ready"
    /\ att' = [att EXCEPT ![r][i] = IF cancelled[r] THEN "skipped"
                                    ELSE "request"]
    /\ IF cancelled[r]
       THEN UNCHANGED hdrs
       ELSE LET q == RequestHeaders(baseHeaders, headers)
            IN  /\ reqHeader' = q.req
                /\ baseHeaders' = q.base
                /\ headers' = q.over
    /\ UNCHANGED <<outside, okBy, Resolves, URLs, pc, v, cnt, result,
                   reported, saved, cancelled, huntIdx, ch, delivered, got,
                   won>>

\* url.go lines 59-65: the request completes with outcome o and the result is
\* sent on ch; the send needs room in the buffer
AttemptRequestRetry(r, i, o) ==
    /\ att[r][i] = "request"
    /\ Len(ch[r]) < ChanCap
    /\ ch' = [ch EXCEPT ![r] = Append(@, MkResult(r, i, o))]
    /\ att' = [att EXCEPT ![r][i] = IF o = "err" THEN "ready" ELSE "done"]
    /\ okBy' = [okBy EXCEPT ![r] = IF o = "ok" THEN @ \cup {i} ELSE @]
    /\ UNCHANGED <<outside, hdrs, Resolves, URLs, pc, v, cnt, result,
                   reported, saved, cancelled, huntIdx, delivered, got, won>>

AttemptRequestDropErr(r, i, o) ==
    /\ att[r][i] = "request"
    /\ Len(ch[r]) < ChanCap
    /\ ch' = [ch EXCEPT ![r] = IF o = "err" THEN @
                              ELSE Append(@, MkResult(r, i, o))]
    /\ att' = [att EXCEPT ![r][i] = "done"]
    /\ okBy' = [okBy EXCEPT ![r] = IF o = "ok" THEN @ \cup {i} ELSE @]
    /\ UNCHANGED <<outside, hdrs, Resolves, URLs, pc, v, cnt, result,
                   reported, saved, cancelled, huntIdx, delivered, got, won>>

AttemptRequestNoReturn(r, i, o) ==
    /\ att[r][i] = "request"
    /\ Len(ch[r]) < ChanCap
    /\ ch' = [ch EXCEPT ![r] = Append(@, MkResult(r, i, o))]
    /\ att' = [att EXCEPT ![r][i] = IF o = "err" THEN "request" ELSE "done"]
    /\ okBy' = [okBy EXCEPT ![r] = IF o = "ok" THEN @ \cup {i} ELSE @]
    /\ UNCHANGED <<outside, hdrs, Resolves, URLs, pc, v, cnt, result,
                   reported, saved, cancelled, huntIdx, delivered, got, won>>

AttemptRequest(r, i, o) ==
    /\ att[r][i] = "request"
    /\ Len(ch[r]) < ChanCap
    /\ ch' = [ch EXCEPT ![r] = Append(@, MkResult(r, i, o))]
    /\ att' = [att EXCEPT ![r][i] = "done"]
    /\ okBy' = [okBy EXCEPT ![r] = IF o = "ok" THEN @ \cup {i} ELSE @]
    /\ UNCHANGED <<outside, hdrs, Resolves, URLs, pc, v, cnt, result,
                   reported, saved, cancelled, huntIdx, delivered, got, won>>

----------------------------------------------------------------------------
(* Specifications *)

Consumer ==
    \/ HuntStart
    \/ StartRace
    \/ EndOfURLs
    \/ Recv
    \/ CancelSuccess
    \/ CancelExhausted
    \/ \E written \in BOOLEAN : Report(written)

Producers ==
    \E r \in Races :
        \/ HuntLaunch(r)
        \/ \E i \in 1..Len(IPs) :
              \/ AttemptCheck(r, i)
              \/ \E o \in Outcomes : AttemptRequest(r, i, o)

Next ==
    \/ Consumer
    \/ Producers

Spec == Init /\ [][Next]_vars

\* the Go scheduler runs every runnable goroutine, and every request ends
\* (requestTimeout / clientTimeout)
FairSpec ==
    /\ Spec
    /\ WF_vars(Consumer)
    /\ WF_vars(Producers)

----------------------------------------------------------------------------
(* client.request called on its own, with any header override *)

OverrideKeys == {"Accept", "Referer", "accept", "X-Extra"}

OverrideValues == {<<>>, <<"">>, <<"x">>, <<"", "x">>}

\* the header maps a caller may hand over: some of the keys, each with a
\* value list
RECURSIVE MapsOver(_)
MapsOver(keys) ==
    IF keys = {} THEN {NoHeaders}
    ELSE LET k == CHOOSE x \in keys : TRUE
             rest == MapsOver(keys \ {k})
         IN  rest \cup {SetKey(m, k, val) : m \in rest, val \in OverrideValues}

HdrInit ==
    /\ Resolves = <<>>
    /\ URLs = <<>>
    /\ pc = "idle"
    /\ v = 0
    /\ cnt = 0
    /\ result = ZeroResult
    /\ reported = "none"
    /\ saved = NoFile
    /\ cancelled = [r \in Races |-> FALSE]
    /\ huntIdx = [r \in Races |-> 0]
    /\ att = [r \in Races |-> <<>>]
    /\ ch = [r \in Races |-> <<>>]
    /\ delivered = <<>>
    /\ got = [r \in Races |-> 0]
    /\ won = [r \in Races |-> FALSE]
    /\ okBy = [r \in Races |-> {}]
    /\ baseHeaders = BaseHeaders
    /\ headers \in MapsOver(OverrideKeys)
    /\ reqHeader = NoReq
    /\ CacheIdle
    /\ ProbeIdle

\* url.go lines 125-137: the request is built from baseHeaders and reqHeaders
ClientRequest ==
    /\ LET q == RequestHeaders(baseHeaders, headers)
       IN  /\ reqHeader' = q.req
           /\ baseHeaders' = q.base
           /\ headers' = q.over
    /\ UNCHANGED <<outside, okBy, Resolves, URLs, pc, v, cnt, result,
                   reported, saved, cancelled, huntIdx, att, ch, delivered,
                   got, won>>

HdrNext == ClientRequest

SpecHeaders == HdrInit /\ [][HdrNext]_vars

----------------------------------------------------------------------------
(* The cache command *)

MaxHosts == 2

MaxOld == 2

\* everything of the hunt command but the cached list
huntOnly == <<URLs, pc, v, cnt, result, reported, saved, cancelled, huntIdx,
              att, ch, delivered, got, won, okBy, hdrs>>

\* hostnames := weibo.Hostnames(): the resolvers are numbered as the list is
hostnames == 1..Len(rs)

\* make(chan []net.IP, len(hostnames))
CacheChanCap == Len(rs)

\* a net.IP holds an IPv4 address in 4 or in 16 bytes; Addr16(i) is the
\* 16-byte form of Addr(i), as net.ParseIP returns it
Addr16(i) == 100 + Addr(i)

\* net.IP.String(): both forms print as the same dotted address
IPString(e) == e % 100

\* an address no cached list of the model holds
NewAddr == Addr(MaxOld + 1)

\* what provider.Resolve may return for a hostname: an error, or a list
ResolveOutcomes ==
    { [err |-> TRUE, IPs |-> <<>>],
      [err |-> FALSE, IPs |-> <<>>],
      [err |-> FALSE, IPs |-> <<Addr16(1)>>],
      [err |-> FALSE, IPs |-> <<NewAddr, Addr(1)>>],
      [err |-> FALSE, IPs |-> <<NewAddr, NewAddr>>] }

\* the message of a resolver: nil on failure, its list otherwise
NilMsg == [isNil |-> TRUE, IPs |-> <<>>]

MkMsg(out) == IF out.err THEN NilMsg ELSE [isNil |-> FALSE, IPs |-> out.IPs]

\* every order in which a set of indices may be listed
RECURSIVE Orders(_)
Orders(S) ==
    IF S = {} THEN {<<>>}
    ELSE UNION {{<<x>> \o t : t \in Orders(S \ {x})} : x \in S}

\* m[e.String()] = i for i, e := range s: the last index of every address
LastIndexByValue(s) ==
    {i \in DOMAIN s : \A j \in DOMAIN s : s[j] = s[i] => j <= i}

LastIndex(s) ==
    {i \in DOMAIN s : \A j \in DOMAIN s :
                          IPString(s[j]) = IPString(s[i]) => j <= i}

\* uniqueIPs: the kept entries, in the order the map iteration yields them
uniqueIPsByValue(s) ==
    {[k \in DOMAIN o |-> s[o[k]]] : o \in Orders(LastIndexByValue(s))}

uniqueIPs(s) == {[k \in DOMAIN o |-> s[o[k]]] : o \in Orders(LastIndex(s))}

CacheInit ==
    /\ Resolves \in {[i \in 1..n |-> Addr(i)] : n \in 0..MaxOld}
    /\ URLs = <<>>
    /\ pc = "idle"
    /\ v = 0
    /\ cnt = 0
    /\ result = ZeroResult
    /\ reported = "none"
    /\ saved = NoFile
    /\ cancelled = [r \in Races |-> FALSE]
    /\ huntIdx = [r \in Races |-> 0]
    /\ att = [r \in Races |-> <<>>]
    /\ ch = [r \in Races |-> <<>>]
    /\ delivered = <<>>
    /\ got = [r \in Races |-> 0]
    /\ won = [r \in Races |-> FALSE]
    /\ okBy = [r \in Races |-> {}]
    /\ baseHeaders = BaseHeaders
    /\ headers = NoHeaders
    /\ reqHeader = NoReq
    /\ force \in BOOLEAN
    /\ cpc = "start"
    /\ spawned = 0
    /\ rs \in {[h \in 1..n |-> "idle"] : n \in 0..MaxHosts}
    /\ wg = 0
    /\ cch = <<>>
    /\ acc = <<>>
    /\ ci = 0
    /\ oldCache = Resolves
    /\ resolvedNow = {}
    /\ sends = [h \in DOMAIN rs |-> 0]
    /\ failed = {}
    /\ ProbeIdle

\* lines 128-143: the provider is chosen and asked for its locations; an
\* unknown provider or a failed Locations() panics
CacheStart(known, locOk) ==
    /\ cpc = "start"
    /\ cpc' = IF known /\ locOk THEN "spawn" ELSE "panic"
    /\ UNCHANGED <<huntOnly, probeVars, Resolves, force, spawned, rs, wg, cch, acc, ci,
                   oldCache, resolvedNow, sends, failed>>

\* lines 148-150: wg.Add(1); go func(hostname)
CacheSpawn ==
    /\ cpc = "spawn"
    /\ spawned < Len(rs)
    /\ wg' = wg + 1
    /\ rs' = [rs EXCEPT ![spawned + 1] = "running"]
    /\ spawned' = spawned + 1
    /\ UNCHANGED <<huntOnly, probeVars, Resolves, force, cpc, cch, acc, ci, oldCache,
                   resolvedNow, sends, failed>>

\* lines 152-158: provider.Resolve, then the one send of the resolver
ResolverSendNoReturn(h, out) ==
    /\ rs[h] = "running"
    /\ Len(cch) < CacheChanCap
    /\ cch' = Append(cch, MkMsg(out))
    /\ rs' = [rs EXCEPT ![h] = IF out.err THEN "running" ELSE "sent"]
    /\ sends' = [sends EXCEPT ![h] = @ + 1]
    /\ failed' = IF out.err THEN failed \cup {h} ELSE failed
    /\ resolvedNow' = IF out.err THEN resolvedNow
                      ELSE resolvedNow \cup {out.IPs[k] : k \in DOMAIN out.IPs}
    /\ UNCHANGED <<huntOnly, probeVars, Resolves, force, cpc, spawned, wg, acc, ci,
                   oldCache>>

ResolverSend(h, out) ==
    /\ rs[h] = "running"
    /\ Len(cch) < CacheChanCap
    /\ cch' = Append(cch, MkMsg(out))
    /\ rs' = [rs EXCEPT ![h] = "sent"]
    /\ sends' = [sends EXCEPT ![h] = @ + 1]
    /\ failed' = IF out.err THEN failed \cup {h} ELSE failed
    /\ resolvedNow' = IF out.err THEN resolvedNow
                      ELSE resolvedNow \cup {out.IPs[k] : k \in DOMAIN out.IPs}
    /\ UNCHANGED <<huntOnly, probeVars, Resolves, force, cpc, spawned, wg, acc, ci,
                   oldCache>>

\* line 152: provider.Resolve never returns: a poll of its getMeasurement
\* panicked in the store of the ETag (eTags is nil) and hangs with c.mu
\* locked, or waits for ever for the mutex another resolver left locked
ResolverHang(h) ==
    /\ rs[h] = "running"
    /\ rs' = [rs EXCEPT ![h] = "hung"]
    /\ UNCHANGED <<huntOnly, probeVars, Resolves, force, cpc, spawned, wg,
                   cch, acc, ci, oldCache, resolvedNow, sends, failed>>

\* line 151: defer wg.Done()
ResolverDone(h) ==
    /\ rs[h] = "sent"
    /\ rs' = [rs EXCEPT ![h] = "done"]
    /\ wg' = wg - 1
    /\ UNCHANGED <<huntOnly, probeVars, Resolves, force, cpc, spawned, cch, acc, ci,
                   oldCache, resolvedNow, sends, failed>>

\* lines 161-166: wg.Wait() returns; resolves starts from the cached list, or
\* from nothing when the force flag was given
CacheWait ==
    /\ cpc = "spawn"
    /\ spawned = Len(rs)
    /\ wg = 0
    /\ acc' = IF force THEN <<>> ELSE Resolves
    /\ cpc' = "collect"
    /\ UNCHANGED <<huntOnly, probeVars, Resolves, force, spawned, rs, wg, cch, ci,
                   oldCache, resolvedNow, sends, failed>>

\* lines 167-169: resolves = append(resolves, <-ch...)
CacheCollectAbortOnNil ==
    /\ cpc = "collect"
    /\ ci < Len(rs)
    /\ Len(cch) > 0
    /\ acc' = acc \o Head(cch).IPs
    /\ cch' = Tail(cch)
    /\ ci' = ci + 1
    /\ cpc' = IF Head(cch).isNil THEN "panic" ELSE cpc
    /\ UNCHANGED <<huntOnly, probeVars, Resolves, force, spawned, rs, wg, oldCache,
                   resolvedNow, sends, failed>>

CacheCollect ==
    /\ cpc = "collect"
    /\ ci < Len(rs)
    /\ Len(cch) > 0
    /\ acc' = acc \o Head(cch).IPs
    /\ cch' = Tail(cch)
    /\ ci' = ci + 1
    /\ UNCHANGED <<huntOnly, probeVars, Resolves, force, cpc, spawned, rs, wg, oldCache,
                   resolvedNow, sends, failed>>

\* lines 170-172 and cmd/root.go 83-98: config.Cache.Resolves =
\* uniqueIPs(resolves); saveConfig(), which panics when the configuration
\* file cannot be created, marshalled or written; "Cached N resolves." is
\* printed after a save only
CacheSave(written) ==
    /\ cpc = "collect"
    /\ ci = Len(rs)
    /\ Resolves' \in uniqueIPs(acc)
    /\ cpc' = IF written THEN "done" ELSE "panic"
    /\ UNCHANGED <<huntOnly, probeVars, force, spawned, rs, wg, cch, acc, ci, oldCache,
                   resolvedNow, sends, failed>>

CacheMain ==
    \/ \E known, locOk \in BOOLEAN : CacheStart(known, locOk)
    \/ CacheSpawn
    \/ CacheWait
    \/ CacheCollect
    \/ \E written \in BOOLEAN : CacheSave(written)

Resolvers ==
    \E h \in hostnames :
        \/ \E out \in ResolveOutcomes : ResolverSend(h, out)
        \/ ResolverHang(h)
        \/ ResolverDone(h)

CacheNext ==
    \/ CacheMain
    \/ Resolvers

SpecCache == CacheInit /\ [][CacheNext]_vars

\* every goroutine keeps running; a provider.Resolve that does not hang
\* returns (its polling is bounded and every request has a timeout)
FairCache ==
    /\ SpecCache
    /\ WF_vars(CacheMain)
    /\ WF_vars(Resolvers)

----------------------------------------------------------------------------
(* The globalping provider client *)

MaxPolls == 2

StatusAccepted == 202

StatusNotModified == 304

StatusBadRequest == 400

StatusNotFound == 404

StatusUnprocessableEntity == 422

StatusTooManyRequests == 429

\* baseURL + "/measurements", baseURL + "/measurements/" + ID
MeasurementsURL == <<"measurements">>

MeasurementURL(ID) == <<"measurements", ID>>

\* var baseReqHeaders = http.Header{...}: the keys are written in lower case
baseReqHeaders ==
    [x \in {"content-type", "accept", "accept-encoding", "user-agent"} |->
        CASE x = "content-type" -> <<"application/json">>
          [] x = "accept" -> <<"application/json">>
          [] x = "accept-encoding" -> <<"br, gzip, deflate">>
          [] x = "user-agent" ->
               <<"WeiboImageHound/1.0 (https://github.com/zry98/weibo-image-hound)">>]

\* http.CanonicalHeaderKey, which Header.Set, Header.Del and Header.Get apply
\* to their key
CanonicalHeaderKey(k) ==
    CASE k = "content-type" -> "Content-Type"
      [] k = "if-none-match" -> "If-None-Match"
      [] k = "ETag" -> "Etag"
      [] OTHER -> k

HeaderDel(h, k) == DelKey(h, CanonicalHeaderKey(k))

HeaderSet(h, k, val) == SetKey(h, CanonicalHeaderKey(k), <<val>>)

\* the bodies a response may carry: not JSON, or a responseOnSuccess
EmptyBody == [json |-> FALSE, ID |-> "", Status |-> ""]

Bodies ==
    { EmptyBody,
      [json |-> TRUE, ID |-> "", Status |-> "finished"],
      [json |-> TRUE, ID |-> "m1", Status |-> "in-progress"],
      [json |-> TRUE, ID |-> "m1", Status |-> "finished"],
      [json |-> TRUE, ID |-> "m1", Status |-> "queued"] }

ETagValues == {"", "e1"}

\* what c.Do and io.ReadAll may yield: a transport failure, a failed read, or
\* a response with its status, its ETag header and its body
Responses ==
    {[fail |-> f, status |-> 0, etag |-> "", body |-> EmptyBody] :
        f \in {"do", "read"}}
    \cup {[fail |-> "none", status |-> StatusOK, etag |-> e, body |-> b] :
             e \in ETagValues, b \in Bodies}
    \cup {[fail |-> "none", status |-> st, etag |-> e, body |-> EmptyBody] :
             st \in {StatusAccepted, StatusNotModified, StatusBadRequest,
                     StatusNotFound, StatusUnprocessableEntity,
                     StatusTooManyRequests, StatusOther},
             e \in ETagValues}

\* lines 177-182: the condition under which if-none-match is set
SendsIfNoneMatch(method, URL, tags) ==
    method = GET /\ MapHas(tags, URL) /\ MapGet(tags, URL) # ""

\* lines 164-184: the header set of the request
RequestHeader(method, URL, tags) ==
    LET h0 == ApplyOverrides(baseReqHeaders, NoHeaders, DOMAIN NoHeaders)
        h1 == IF method = GET THEN HeaderDel(h0, "content-type") ELSE h0
    IN  IF SendsIfNoneMatch(method, URL, tags)
        THEN HeaderSet(h1, "if-none-match", MapGet(tags, URL))
        ELSE h1

\* lines 160-185: the call up to c.Do(req)
Sent(method, URL, tags) ==
    [phase |-> "sent", method |-> method, URL |-> URL,
     before |-> MapGet(tags, URL), hdr |-> RequestHeader(method, URL, tags),
     status |-> 0, etag |-> "", body |-> NilBody, err |-> FALSE]

\* line 179: a GET locks c.mu before it reads eTags
LocksToSend(method) == method = GET

\* line 203: the condition under which the ETag of the response is stored
StoresETag(method, resp) ==
    resp.fail = "none" /\ method = GET /\ resp.etag # ""

\* lines 204-206: c.eTags[URL] = eTag, which panics when the map is nil
StoreETag(method, URL, tags, resp) ==
    IF ~StoresETag(method, resp) THEN [panics |-> FALSE, tags |-> tags]
    ELSE IF ~tags.made THEN [panics |-> TRUE, tags |-> tags]
    ELSE [panics |-> FALSE, tags |-> MapAssign(tags, URL, resp.etag)]

\* lines 186-233: body and error returned for a response
RequestReturn(resp) ==
    IF resp.fail # "none" THEN [body |-> NilBody, err |-> TRUE]
    ELSE IF resp.status \in {StatusOK, StatusAccepted}
         THEN [body |-> resp.body, err |-> FALSE]
    ELSE IF resp.status = StatusNotModified
         THEN [body |-> NilBody, err |-> FALSE]
    ELSE IF resp.status \in {StatusBadRequest, StatusNotFound,
                             StatusUnprocessableEntity,
                             StatusTooManyRequests}
         THEN [body |-> NilBody, err |-> TRUE]
    ELSE [body |-> resp.body, err |-> TRUE]

\* lines 186-233: the call from c.Do(req) on: it returns, or it panics in
\* the store with c.mu locked
Received(call, tags, resp) ==
    LET got1 == [call EXCEPT !.status = resp.status,
                             !.etag = IF resp.fail = "none" THEN resp.etag
                                      ELSE ""]
    IN  IF StoreETag(call.method, call.URL, tags, resp).panics
        THEN [got1 EXCEPT !.phase = "panicked"]
        ELSE [got1 EXCEPT !.phase = "returned",
                          !.body = RequestReturn(resp).body,
                          !.err = RequestReturn(resp).err]

\* lines 111-136: what getMeasurement does with the return of a poll
PollOutcomeNoNilCheck(q) ==
    IF q.err THEN "continue"
    ELSE IF q.body = NilBody THEN "unmarshal"
    ELSE IF ~q.body.json THEN "unmarshal"
    ELSE IF q.body.ID = "" THEN "invalid"
    ELSE IF q.body.Status = "in-progress" THEN "continue"
    ELSE IF q.body.Status = "finished" THEN "results"
    ELSE "unknownStatus"

PollOutcome(q) ==
    IF q.err THEN "continue"
    ELSE IF q.body = NilBody THEN "continue"
    ELSE IF ~q.body.json THEN "unmarshal"
    ELSE IF q.body.ID = "" THEN "invalid"
    ELSE IF q.body.Status = "in-progress" THEN "continue"
    ELSE IF q.body.Status = "finished" THEN "results"
    ELSE "unknownStatus"

\* lines 97-101: the deferred delete(c.eTags, URL)
DeferredDelete(tags, URL) == MapDelete(tags, URL)

ProbeInit ==
    /\ Resolves = <<>>
    /\ URLs = <<>>
    /\ pc = "idle"
    /\ v = 0
    /\ cnt = 0
    /\ result = ZeroResult
    /\ reported = "none"
    /\ saved = NoFile
    /\ cancelled = [r \in Races |-> FALSE]
    /\ huntIdx = [r \in Races |-> 0]
    /\ att = [r \in Races |-> <<>>]
    /\ ch = [r \in Races |-> <<>>]
    /\ delivered = <<>>
    /\ got = [r \in Races |-> 0]
    /\ won = [r \in Races |-> FALSE]
    /\ okBy = [r \in Races |-> {}]
    /\ baseHeaders = BaseHeaders
    /\ headers = NoHeaders
    /\ reqHeader = NoReq
    /\ CacheIdle
    /\ gpc = "call"
    /\ gid \in {"", "m1"}
    /\ eTags = NewClientETags
    /\ mu = FALSE
    /\ timerFired = FALSE
    /\ polls = 0
    /\ gret = "none"
    /\ pollReq = NoCall
    /\ otherReq = NoCall

\* lines 93-106: the ID is checked, the delete is deferred, ticker and timer
\* are started
GmCall ==
    /\ gpc = "call"
    /\ IF gid = ""
       THEN gpc' = "returned" /\ gret' = "noID"
       ELSE gpc' = "select" /\ gret' = gret
    /\ UNCHANGED <<huntOnly, cacheVars, Resolves, gid, eTags, mu, timerFired,
                   polls, pollReq, otherReq>>

\* getMeasurementOverallTimeout has passed: the timer sends on its channel,
\* wherever the goroutine is in the loop
GmTimerFire ==
    /\ gpc \in {"select", "polling"}
    /\ ~timerFired
    /\ timerFired' = TRUE
    /\ UNCHANGED <<huntOnly, cacheVars, Resolves, gpc, gid, eTags, mu, polls,
                   gret, pollReq, otherReq>>

\* lines 109-110 and 160-185: case <-ticker.C: the request is built and
\* sent; it waits for c.mu for ever when the mutex was left locked
GmTick ==
    /\ gpc = "select"
    /\ polls < MaxPolls
    /\ polls' = polls + 1
    /\ IF mu /\ LocksToSend(GET)
       THEN /\ gpc' = "blocked"
            /\ pollReq' = [NoCall EXCEPT !.phase = "blocked"]
       ELSE /\ gpc' = "polling"
            /\ pollReq' = Sent(GET, MeasurementURL(gid), eTags)
    /\ UNCHANGED <<huntOnly, cacheVars, Resolves, gid, eTags, mu, timerFired,
                   gret, otherReq>>

\* lines 186-233 and 111-136: the response of the poll and what follows from
\* it.  A panic in the store leaves c.mu locked, and the deferred delete of
\* the panicking goroutine then waits for c.mu for ever; a return runs the
\* deferred delete, which needs c.mu as well
GmResponse(resp) ==
    /\ gpc = "polling"
    /\ LET URL == MeasurementURL(gid)
           st == StoreETag(GET, URL, eTags, resp)
           q == Received(pollReq, eTags, resp)
           o == PollOutcome(q)
       IN  IF StoresETag(GET, resp) /\ mu
           THEN /\ gpc' = "blocked"
                /\ UNCHANGED <<eTags, mu, gret, pollReq>>
           ELSE IF st.panics
           THEN /\ gpc' = "hung"
                /\ mu' = TRUE
                /\ pollReq' = q
                /\ UNCHANGED <<eTags, gret>>
           ELSE IF o = "continue"
           THEN /\ gpc' = "select"
                /\ eTags' = st.tags
                /\ pollReq' = q
                /\ UNCHANGED <<mu, gret>>
           ELSE IF mu
           THEN /\ gpc' = "blocked"
                /\ eTags' = st.tags
                /\ pollReq' = q
                /\ UNCHANGED <<mu, gret>>
           ELSE /\ gpc' = "returned"
                /\ gret' = o
                /\ eTags' = DeferredDelete(st.tags, URL)
                /\ pollReq' = q
                /\ UNCHANGED mu
    /\ UNCHANGED <<huntOnly, cacheVars, Resolves, gid, timerFired, polls,
                   otherReq>>

\* lines 137-138: case <-overallTimeout.C, and the deferred delete
GmTimeout ==
    /\ gpc = "select"
    /\ timerFired
    /\ IF mu
       THEN /\ gpc' = "blocked"
            /\ UNCHANGED <<gret, eTags>>
       ELSE /\ gpc' = "returned"
            /\ gret' = "timeout"
            /\ eTags' = DeferredDelete(eTags, MeasurementURL(gid))
    /\ UNCHANGED <<huntOnly, cacheVars, Resolves, gid, mu, timerFired, polls,
                   pollReq, otherReq>>

\* a request of another resolver, which shares the client: the POST of its
\* createMeasurement, or a poll of its own getMeasurement
OtherSend(method, URL) ==
    /\ gpc # "idle"
    /\ otherReq.phase \in {"none", "returned"}
    /\ otherReq' = IF mu /\ LocksToSend(method)
                   THEN [NoCall EXCEPT !.phase = "blocked"]
                   ELSE Sent(method, URL, eTags)
    /\ UNCHANGED <<huntOnly, cacheVars, Resolves, gpc, gid, eTags, mu,
                   timerFired, polls, gret, pollReq>>

\* the response of that request; when its store panics, the other
\* getMeasurement hangs in its deferred delete with c.mu locked
OtherResponse(resp) ==
    /\ otherReq.phase = "sent"
    /\ LET st == StoreETag(otherReq.method, otherReq.URL, eTags, resp)
       IN  IF StoresETag(otherReq.method, resp) /\ mu
           THEN /\ otherReq' = [otherReq EXCEPT !.phase = "blocked"]
                /\ UNCHANGED <<eTags, mu>>
           ELSE /\ otherReq' = Received(otherReq, eTags, resp)
                /\ mu' = (mu \/ st.panics)
                /\ eTags' = st.tags
    /\ UNCHANGED <<huntOnly, cacheVars, Resolves, gpc, gid, timerFired,
                   polls, gret, pollReq>>

GetMeasurement ==
    \/ GmCall
    \/ GmTick
    \/ \E resp \in Responses : GmResponse(resp)
    \/ GmTimeout

OtherCalls ==
    \/ OtherSend(POST, MeasurementsURL)
    \/ OtherSend(GET, MeasurementURL("m2"))
    \/ \E resp \in Responses : OtherResponse(resp)

ProbeNext ==
    \/ GetMeasurement
    \/ GmTimerFire
    \/ OtherCalls

SpecProbe == ProbeInit /\ [][ProbeNext]_vars

\* the goroutine of getMeasurement keeps running, every request returns or
\* fails within requestTimeout, and time passes, so the overall timer fires
FairProbe ==
    /\ SpecProbe
    /\ WF_vars(GetMeasurement)
    /\ WF_vars(GmTimerFire)

----------------------------------------------------------------------------
(* Vocabulary of the properties *)

\* every result the attempts of race r have sent that is still known: the
\* channel contents and, for the current race, what the consumer received
Deposited(r) == IF r = v THEN delivered \o ch[r] ELSE ch[r]

CountIP(seq, ip) == Cardinality({k \in 1..Len(seq) : seq[k].IP = ip})

NoSuccessIn(seq) == \A k \in 1..Len(seq) : ~IsSuccess(seq[k])

SuccessObserved == \E r \in Races : won[r]

IsPrefix(s, t) == Len(s) <= Len(t) /\ \A k \in 1..Len(s) : s[k] = t[k]

Finished(r) == \A i \in 1..Len(IPs) : att[r][i] \in {"done", "skipped"}

----------------------------------------------------------------------------
(* Properties of the hunt *)

\* C1: when every variant's race was exhausted without a Success, the hunt
\* ends reporting exhaustion, not a success.
C1_ExhaustionReported ==
    (pc \in {"done", "panic"} /\ ~SuccessObserved) => reported # "SUCCESS"

\* C2: once the consumer has observed a Success the hunt stops: the race is
\* cancelled, no further result is consumed and no further race is started.
C2_StopsAtFirstSuccess ==
    /\ [](SuccessObserved /\ pc # "succeeded" => cancelled[v])
    /\ [][SuccessObserved =>
            /\ delivered' = delivered
            /\ got' = got
            /\ \A r \in Races : huntIdx[r] = 0 => huntIdx'[r] = 0
            /\ v' = v]_vars

C2_Witness ==
    /\ pc = "done"
    /\ SuccessObserved
    /\ v < Len(URLs)
    /\ ch[v] # <<>>

\* C3: variants are raced in list order: a race is started only after every
\* earlier race delivered exactly |IPs| results, none a Success, and was
\* cancelled; a 200 sent in the race of a later variant is what the hunt returns.
C3_VariantsInOrder ==
    /\ \A r \in Races : huntIdx[r] > 0 =>
          /\ r <= v
          /\ \A q \in 1..(r - 1) :
                /\ huntIdx[q] > 0
                /\ got[q] = Len(IPs)
                /\ ~won[q]
                /\ cancelled[q]
    /\ pc \in {"report", "done"} =>
          \A r \in Races : ~NoSuccessIn(Deposited(r)) =>
              /\ IsSuccess(result)
              /\ result.URL = URLs[r]

C3_Witness ==
    /\ pc = "done"
    /\ v = 2
    /\ got[1] = Len(IPs)
    /\ ~won[1]
    /\ IsSuccess(result)
    /\ result.URL = URLs[2]

\* C4: until a race is cancelled every candidate IP sends exactly one result
\* (none twice, none skipped), so an exhausted race has delivered one
\* non-Success result per IP.
C4_OneResultPerIP ==
    \A r \in Races :
        /\ \A i \in 1..Len(IPs) :
              /\ r = v => CountIP(Deposited(r), IPs[i])
                            = IF att[r][i] = "done" THEN 1 ELSE 0
              /\ CountIP(ch[r], IPs[i]) <= IF att[r][i] = "done" THEN 1 ELSE 0
              /\ ~cancelled[r] => att[r][i] # "skipped"
        /\ (r = v /\ pc = "exhausted") =>
              /\ ~cancelled[r]
              /\ Len(delivered) = Len(IPs)
              /\ \A i \in 1..Len(IPs) : CountIP(delivered, IPs[i]) = 1
              /\ NoSuccessIn(delivered)

C4_Witness ==
    /\ pc = "exhausted"
    /\ Len(IPs) >= 2
    /\ ~cancelled[v]
    /\ Len(delivered) = Len(IPs)

\* C5 (as claimed): once a race is cancelled no attempt of it sends a result
\* into the stream any more.
C5_NoSendAfterCancel ==
    [][\A r \in Races : cancelled[r] => Len(ch'[r]) <= Len(ch[r])]_vars

\* C5 (amended): after a race is cancelled its stream is never read again:
\* what attempts past their check still send stays queued and is not
\* delivered to the consumer.
C5_QueuedNeverDelivered ==
    [][\A r \in Races : cancelled[r] =>
            /\ IsPrefix(ch[r], ch'[r])
            /\ got'[r] = got[r]
            /\ \A i \in 1..Len(IPs) :
                  (att[r][i] # "done" /\ att'[r][i] = "done")
                      => att[r][i] = "request"]_vars

C5_Witness ==
    \E r \in Races :
        /\ cancelled[r]
        /\ pc = "done"
        /\ got[r] < Len(IPs)
        /\ got[r] + Len(ch[r]) = Len(IPs)
        /\ Len(IPs) >= 2

\* C6: an attempt that finds the context cancelled at its check makes no
\* request and sends no result.
C6_CancelledAtCheckNoResult ==
    /\ [](\A r \in Races : \A i \in 1..Len(IPs) :
            att[r][i] = "skipped" =>
                /\ cancelled[r]
                /\ CountIP(Deposited(r), IPs[i]) = 0)
    /\ [][\A r \in Races : \A i \in 1..Len(IPs) :
            /\ (att[r][i] = "ready" /\ cancelled[r])
                  => att'[r][i] \in {"ready", "skipped"}
            /\ att[r][i] = "skipped" => att'[r][i] = "skipped"]_vars

C6_Witness ==
    \E r \in Races : \E i \in 1..Len(IPs) : att[r][i] = "skipped"

\* C7: the stream never holds more than |IPs| results and an attempt with a
\* result to send always finds room, whether or not the consumer reads.
C7_NeverBlocksOnSend ==
    \A r \in Races :
        /\ Len(ch[r]) <= Len(IPs)
        /\ \A i \in 1..Len(IPs) :
              att[r][i] = "request" => Len(ch[r]) < ChanCap

C7_Witness ==
    \E r \in Races :
        /\ Len(IPs) >= 2
        /\ Len(ch[r]) = Len(IPs)
        /\ got[r] = 0

\* C8: the consumer is never delivered more results of a race than there are
\* candidate IPs.
C8_DeliveredAtMostIPs ==
    \A r \in Races : got[r] <= Len(Resolves)

C8_Witness ==
    \E r \in Races :
        /\ Len(Resolves) >= 2
        /\ got[r] = Len(Resolves)

\* C9: the hunt terminates when every goroutine keeps running and every
\* request ends; a race is left only on a Success or after exactly |IPs|
\* results were read.
C9_HuntTerminates ==
    /\ <>(pc \in {"done", "noresolves", "panic"})
    /\ [](pc = "succeeded" => IsSuccess(result) /\ won[v])
    /\ [](pc = "exhausted" => got[v] = Len(IPs) /\ ~won[v])

C9_Witness ==
    /\ pc = "done"
    /\ Len(IPs) >= 2
    /\ ~SuccessObserved
    /\ \A r \in 1..Len(URLs) : got[r] = Len(IPs)

\* C10: the cancel after an exhausted race comes after every attempt has
\* reported and changes neither attempts nor stream; after any cancel every
\* attempt of the race terminates.
C10_CancelSafe ==
    /\ [][(pc = "exhausted" /\ pc' # "exhausted") =>
            /\ Finished(v)
            /\ ch[v] = <<>>
            /\ att' = att
            /\ ch' = ch
            /\ delivered' = delivered
            /\ got' = got
            /\ result' = result]_vars
    /\ \A r \in Races : cancelled[r] ~> Finished(r)

C10_Witness ==
    /\ pc = "urls"
    /\ v = 1
    /\ Len(URLs) > 1
    /\ cancelled[1]
    /\ Finished(1)
    /\ ch[1] = <<>>

\* C11: when exactly one attempt of a race returned 200, the result the hunt
\* returns carries that attempt's IP, status 200 and body, this body is what
\* is written out, and the race is cancelled; the consumer cancels as soon as
\* it has the Success, whatever the other attempts are doing.
C11_DesignatedIPReturned ==
    /\ \A r \in Races : \A i \in 1..Len(IPs) :
          (pc \in {"report", "done"} /\ okBy[r] = {i}) =>
              /\ result.IP = IPs[i]
              /\ ~result.Err
              /\ result.Status = StatusOK
              /\ result.URL = URLs[r]
              /\ result.Body = ServedBody(URLs[r], IPs[i], "ok")
              /\ cancelled[r]
              /\ pc = "done" => saved = result.Body
    /\ pc = "succeeded" => ENABLED CancelSuccess

C11_Witness ==
    /\ pc = "done"
    /\ Len(IPs) >= 3
    /\ okBy[v] = {2}
    /\ result.IP = IPs[2]
    /\ att[v][1] = "done"
    /\ att[v][3] = "request"

\* C12: the consumer takes results in arrival order; the result of a
\* successful hunt is the first Success to arrive, whatever its place in the
\* IP list, and nothing replaces it afterwards.
C12_FirstArrivalWins ==
    /\ [](SuccessObserved =>
            /\ delivered # <<>>
            /\ result = delivered[Len(delivered)]
            /\ IsSuccess(result)
            /\ NoSuccessIn(SubSeq(delivered, 1, Len(delivered) - 1)))
    /\ [][\A r \in Races : got'[r] = got[r] + 1 =>
            /\ result' = Head(ch[r])
            /\ ch'[r] = Tail(ch[r])
            /\ delivered' = Append(delivered, Head(ch[r]))]_vars
    /\ [][SuccessObserved => result' = result]_vars

C12_Witness ==
    /\ pc = "done"
    /\ Len(IPs) >= 2
    /\ IsSuccess(result)
    /\ result.IP = IPs[2]
    /\ Len(delivered) = 1
    /\ ch[v] # <<>>
    /\ IsSuccess(ch[v][1])
    /\ ch[v][1].IP = IPs[1]

\* C13: a received result counts as a Success exactly when it has no error
\* and status 200; a transport failure and a response with another status
\* (a redirect is not followed and arrives as such) are handled alike.
C13_SuccessIffNoErrAnd200 ==
    [][\A r \in Races : got'[r] = got[r] + 1 =>
          /\ (pc' = "succeeded")
                <=> (result'.Err = FALSE /\ result'.Status = StatusOK)
          /\ won'[r] <=> (result'.Err = FALSE /\ result'.Status = StatusOK)
          /\ pc' # "succeeded" =>
                pc' = IF got'[r] >= Len(IPs) THEN "exhausted" ELSE "recv"]_vars

C13_Witness ==
    /\ pc = "recv"
    /\ Len(delivered) = 2
    /\ \E k \in 1..2 : delivered[k].Err
    /\ \E k \in 1..2 : ~delivered[k].Err /\ delivered[k].Status = StatusOther

\* C14: a failed attempt ends only itself, and after receiving a failed
\* result the consumer keeps reading the race until |IPs| results were read;
\* nothing is cancelled or reported because of it.
C14_FailureDoesNotAbort ==
    /\ [][\A r \in Races : (got'[r] = got[r] + 1 /\ ~IsSuccess(result')) =>
            /\ got'[r] < Len(IPs) => pc' = "recv"
            /\ got'[r] = Len(IPs) => pc' = "exhausted"
            /\ cancelled' = cancelled
            /\ reported' = reported]_vars
    /\ [][\A r \in Races : \A i \in 1..Len(IPs) :
            (att[r][i] = "request" /\ att'[r][i] = "done") =>
                /\ pc' = pc
                /\ cancelled' = cancelled
                /\ \A j \in 1..Len(IPs) : j # i => att'[r][j] = att[r][j]]_vars

C14_Witness ==
    /\ pc = "succeeded"
    /\ Len(delivered) = 3
    /\ delivered[1].Err
    /\ ~IsSuccess(delivered[2])

\* C15: within one race an entry of the IP list is attempted at most once: an
\* attempt only moves forward (launched, checked, requested, reported), a
\* finished one is final, and Hunt launches each index once; the entry is
\* attempted again only in the race of a later variant.
AttRank(st) ==
    CASE st = "idle" -> 0
      [] st = "ready" -> 1
      [] st = "request" -> 2
      [] OTHER -> 3

C15_AtMostOneAttemptPerIP ==
    /\ [][\A r \in Races : \A i \in 1..Len(IPs) :
            /\ AttRank(att'[r][i]) >= AttRank(att[r][i])
            /\ AttRank(att'[r][i]) <= AttRank(att[r][i]) + 2
            /\ att[r][i] \in {"done", "skipped"} => att'[r][i] = att[r][i]
            /\ huntIdx'[r] >= huntIdx[r]
            /\ (att[r][i] = "idle" /\ att'[r][i] # "idle") =>
                  /\ huntIdx[r] = i
                  /\ huntIdx'[r] = i + 1]_vars
    /\ [](\A r \in Races : \A i \in 1..Len(IPs) :
            /\ CountIP(ch[r], IPs[i]) <= 1
            /\ att[r][i] # "idle" => (huntIdx[r] > i /\ r <= v))

C15_Witness ==
    /\ v = 2
    /\ att[1][1] = "done"
    /\ att[2][1] = "done"
    /\ CountIP(delivered, IPs[1]) = 1
    /\ delivered[1].Err

\* C16: only the race of the current variant is active: every earlier race is
\* cancelled with no attempt in flight and an empty stream, and every result
\* the consumer holds was made for the current variant's URL.
C16_OneActiveRace ==
    /\ \A r \in Races : (huntIdx[r] > 0 /\ r < v) =>
          /\ cancelled[r]
          /\ huntIdx[r] > Len(IPs)
          /\ Finished(r)
          /\ ch[r] = <<>>
    /\ \A r \in Races : r > v =>
          /\ huntIdx[r] = 0
          /\ ~cancelled[r]
          /\ ch[r] = <<>>
    /\ \A k \in 1..Len(delivered) : delivered[k].URL = URLs[v]
    /\ \A r \in Races : \A k \in 1..Len(ch[r]) : ch[r][k].URL = URLs[r]

C16_Witness ==
    /\ v = 2
    /\ pc = "recv"
    /\ Len(delivered) = 1
    /\ delivered[1].URL = URLs[2]
    /\ Finished(1)
    /\ \E i \in 1..Len(IPs) : att[2][i] = "request"

\* C17: the outgoing header set is the baseline merged with the override, key
\* by key: a key overridden with no value or an empty first value is absent,
\* a key overridden with a non-empty first value carries the override's
\* values, and a key the override does not mention keeps its baseline value.
Removes(val) == Len(val) = 0 \/ val[1] = ""

C17_HeaderMerge ==
    reqHeader # NoReq =>
        \A k \in DOMAIN BaseHeaders \cup OverrideKeys :
            /\ (k \in DOMAIN headers /\ Removes(headers[k]))
                  => k \notin DOMAIN reqHeader
            /\ (k \in DOMAIN headers /\ ~Removes(headers[k]))
                  => (k \in DOMAIN reqHeader /\ reqHeader[k] = headers[k])
            /\ (k \notin DOMAIN headers /\ k \in DOMAIN BaseHeaders)
                  => (k \in DOMAIN reqHeader /\ reqHeader[k] = BaseHeaders[k])
            /\ (k \notin DOMAIN headers /\ k \notin DOMAIN BaseHeaders)
                  => k \notin DOMAIN reqHeader

C17_Witness ==
    /\ reqHeader # NoReq
    /\ DOMAIN headers = {"Accept", "Referer", "X-Extra"}
    /\ headers["Accept"] = <<"", "x">>
    /\ headers["Referer"] = <<"x">>
    /\ headers["X-Extra"] = <<>>
    /\ "Accept" \notin DOMAIN reqHeader
    /\ reqHeader["Referer"] = <<"x">>
    /\ reqHeader["User-Agent"] = BaseHeaders["User-Agent"]

\* C18: no step of the hunt, of Hunt or of an attempt changes the cached IP
\* list, the header override or the baseline header set.
C18_SharedInputsUnchanged ==
    /\ [][/\ Resolves' = Resolves
          /\ baseHeaders' = baseHeaders
          /\ headers' = headers]_vars
    /\ [](baseHeaders = BaseHeaders)

C18_Witness ==
    /\ pc = "done"
    /\ v >= 2
    /\ Len(Resolves) >= 2
    /\ reqHeader = BaseHeaders
    /\ \A i \in 1..Len(IPs) : att[1][i] = "done" /\ att[2][i] = "done"

\* C19: after the cache command the cached list holds no address twice; without
\* the force flag every address cached before is still in it, and with the
\* force flag every address in it was resolved in this run.
Strings(s) == {IPString(s[k]) : k \in DOMAIN s}

C19_CacheResult ==
    cpc = "done" =>
        /\ \A i, j \in DOMAIN Resolves :
              IPString(Resolves[i]) = IPString(Resolves[j]) => i = j
        /\ ~force => Strings(oldCache) \subseteq Strings(Resolves)
        /\ force => Strings(Resolves) \subseteq {IPString(a) : a \in resolvedNow}

C19_Witness ==
    /\ cpc = "done"
    /\ force
    /\ Len(oldCache) = MaxOld
    /\ Len(acc) > Len(Resolves)
    /\ Len(Resolves) >= 2
    /\ ~(Strings(oldCache) \subseteq Strings(Resolves))

\* C20: every resolver sends exactly one message, nil exactly when Resolve
\* failed, into a channel with room for one message per hostname; a resolver
\* ready to send finds room, the wait returns once every resolver is done,
\* and the collector then receives |hostnames| messages, which leaves the
\* channel empty.  A resolver whose provider.Resolve hangs sends nothing, and
\* the wait never returns.
C20_CacheConcurrency ==
    /\ [](\A h \in hostnames :
             /\ sends[h] <= 1
             /\ rs[h] \in {"sent", "done"} => sends[h] = 1
             /\ rs[h] = "running" => Len(cch) < CacheChanCap)
    /\ [](Len(cch) <= Len(rs))
    /\ [](cpc \in {"collect", "done"} =>
             /\ \A h \in hostnames : rs[h] = "done"
             /\ ci + Len(cch) = Len(rs))
    /\ [](cpc = "done" => ci = Len(rs) /\ cch = <<>>)
    /\ (cpc = "spawn" ~> (cpc = "collect" /\ ci = Len(rs) /\ cch = <<>>))

\* C21: a hostname whose resolution failed does not abort the cache command:
\* after a failure the command panics only in saveConfig, once every message
\* was collected; the list handed to saveConfig holds every address resolved
\* for the other hostnames; and the command still reaches saveConfig, which
\* saves the configuration or panics, unless some resolver never returns.
C21_ResolveFailureTolerated ==
    /\ [][failed # {} /\ cpc # "panic" /\ cpc' = "panic" =>
             /\ cpc = "collect"
             /\ ci = Len(rs)
             /\ {IPString(a) : a \in resolvedNow} \subseteq Strings(Resolves')
         ]_vars
    /\ [](cpc = "done" => {IPString(a) : a \in resolvedNow}
                             \subseteq Strings(Resolves))
    /\ (failed # {} ~> (\/ cpc \in {"done", "panic"}
                        \/ \E h \in hostnames : rs[h] = "hung"))

C21_Witness ==
    /\ cpc = "done"
    /\ failed # {}
    /\ failed # hostnames
    /\ force
    /\ NewAddr \in resolvedNow
    /\ \E k \in DOMAIN Resolves : Resolves[k] = NewAddr

\* C22: with an empty cached list the hunt starts no race, launches no
\* attempt and writes no output file: it reports the missing resolves and
\* returns.
C22_EmptyCacheNoRace ==
    Len(Resolves) = 0 =>
        /\ pc \in {"start", "noresolves"}
        /\ v = 0
        /\ URLs = <<>>
        /\ saved = NoFile
        /\ reported \in {"none", "NoResolves"}
        /\ reqHeader = NoReq
        /\ \A r \in Races : huntIdx[r] = 0 /\ ch[r] = <<>> /\ ~cancelled[r]

C22_Witness ==
    /\ Len(Resolves) = 0
    /\ pc = "noresolves"
    /\ reported = "NoResolves"

\* the latest calls of client.request that got as far as sending
Calls == {q \in {pollReq, otherReq} : q.phase \in {"sent", "returned",
                                                  "panicked"}}

\* the body of a call is a response that parsed, with an ID
Parsed(q) == ~q.err /\ q.body # NilBody /\ q.body.json /\ q.body.ID # ""

\* C23: getMeasurement terminates; it returns results only from a poll whose
\* response is "finished"; a poll that fails, is answered 304 or reports
\* "in-progress" keeps it polling; an unknown status, a response without id
\* and an empty ID argument return an error; the timeout error is returned
\* only when the timer has fired.
C23_PollingLoop ==
    /\ <>(gpc = "returned")
    /\ [][(gpc = "polling" /\ pollReq'.phase = "returned") =>
            /\ (\/ pollReq'.err
                \/ pollReq'.body = NilBody
                \/ (Parsed(pollReq') /\ pollReq'.body.Status = "in-progress"))
                  => (gpc' = "select" /\ gret' = "none")
            /\ gret' = "results"
                  <=> (Parsed(pollReq') /\ pollReq'.body.Status = "finished")
            /\ (/\ Parsed(pollReq')
                /\ pollReq'.body.Status \notin {"in-progress", "finished"})
                  => (gpc' = "returned" /\ gret' = "unknownStatus")
            /\ (~pollReq'.err /\ pollReq'.body # NilBody /\ ~Parsed(pollReq'))
                  => (gpc' = "returned" /\ gret' \in {"unmarshal", "invalid"})
         ]_vars
    /\ [](gpc = "returned" /\ gid = "" => gret = "noID" /\ polls = 0)
    /\ [][gret' = "timeout" /\ gret # "timeout" =>
             timerFired /\ gpc = "select" /\ gpc' = "returned"]_vars
    /\ [](gpc = "returned" => gret # "none")

\* C25: a request carries if-none-match exactly when it is a GET and a
\* non-empty ETag is stored for its URL, and then with the stored value; an
\* ETag enters eTags only from a GET response with a non-empty ETag header,
\* for the URL of that request; a 304 Not Modified returns a nil body and no
\* error.
C25_ETagProtocol ==
    /\ [](\A q \in Calls :
             /\ "if-none-match" \notin DOMAIN q.hdr
             /\ "If-None-Match" \in DOMAIN q.hdr
                   <=> (q.method = GET /\ q.before # "")
             /\ "If-None-Match" \in DOMAIN q.hdr
                   => q.hdr["If-None-Match"] = <<q.before>>
             /\ q.status = StatusNotModified
                   => (q.phase = "returned" /\ q.body = NilBody /\ ~q.err))
    /\ [][\A u \in DOMAIN eTags'.m :
             (~MapHas(eTags, u) \/ MapGet(eTags, u) # MapGet(eTags', u))
                => \E q \in {pollReq', otherReq'} :
                      /\ q.phase = "returned"
                      /\ q.method = GET
                      /\ q.URL = u
                      /\ q.etag # ""
                      /\ MapGet(eTags', u) = q.etag]_vars

====
